---- MODULE Spec2Model ----
(***************************************************************************)
(* Model of foxxll's asynchronous prefetching engine (block_prefetcher,    *)
(* with its completion adapter set_switch_handler) and of the buffered     *)
(* output stream (buf_ostream).                                            *)
(*                                                                         *)
(* The prefetcher is driven by one calling thread; the I/O subsystem       *)
(* serves the issued reads on its own thread, so its steps interleave with *)
(* every step of the caller.  A blocking wait is a guard: the step after   *)
(* it is enabled only when the awaited condition holds.                    *)
(***************************************************************************)
EXTENDS Integers, Sequences, FiniteSets, TLC

\* ------------------------------------------------------------- bounds
MaxN == 3         \* longest consumption sequence tried
MaxBuf == 2       \* largest requested number of prefetch buffers tried
MaxFalse == 2     \* block_consumed calls allowed to return false in one run
MaxBlockSize == 3 \* largest block capacity (block_type::size) tried
MaxOps == 5       \* operations applied to one output stream

\* size_t(-1), the value std::fill puts in every pref_buffer entry
Unassigned == -1

VARIABLES
    seq_length,        \* N = _cons_end - _cons_begin
    prefetch_buf_size, \* B, the constructor's _prefetch_buf_size
    prefetch_seq,      \* the schedule: [0..N-1 -> 0..N-1]
    do_after_fetch,    \* TRUE iff the user gave a non-empty completion handler
    nextread,
    nextconsume,
    nreadblocks,
    read_reqs,         \* slot -> request id, 0 is the null request_ptr
    pref_buffer,       \* position -> slot, Unassigned until set
    completed,         \* position -> is the onoff_switch on
    read_buffers,      \* slot -> position whose read last completed into it
    reqs,              \* every read issued so far, in issue order
    pc,                \* where the calling thread is
    i,                 \* loop index of the constructor / destructor
    ibuffer,           \* local of block_consumed
    next_2_prefetch,   \* local of block_consumed
    iblock,            \* argument of wait
    held,              \* slots whose buffer the caller holds
    delivered,         \* log: what wait returned, in order: the position
                       \* waited for, the slot returned, the position whose
                       \* read last completed into that slot, and which call
                       \* returned it (0: pull_block, k: the k-th
                       \* block_consumed call)
    rets,              \* log: return values of block_consumed, in order
    cb_log,            \* position -> success flags the user handler received
    failed_asserts,    \* source lines of the assertions that failed
    \* buf_ostream
    block_size,        \* block_type::size, the capacity of a block in records
    ostream,           \* the members: current_bid (as the number of output
                       \* identifiers consumed), current_elem, current_blk
                       \* (the records in the current buffer), and written:
                       \* the blocks handed to the writer, in order
    os_hist            \* log: the operations applied to the stream, in order

vars == <<seq_length, prefetch_buf_size, prefetch_seq, do_after_fetch,
          nextread, nextconsume, nreadblocks, read_reqs, pref_buffer,
          completed, read_buffers, reqs, pc, i, ibuffer, next_2_prefetch,
          iblock, held,
          delivered, rets, cb_log, failed_asserts,
          block_size, ostream, os_hist>>

\* the output stream, which no step of the prefetcher touches
stream == <<block_size, ostream, os_hist>>

\* the prefetcher and its caller, which no step of the stream touches
prefetcher == <<seq_length, prefetch_buf_size, prefetch_seq, do_after_fetch,
                nextread, nextconsume, nreadblocks, read_reqs, pref_buffer,
                completed, read_buffers, reqs, pc, i, ibuffer,
                next_2_prefetch, iblock, held, delivered, rets, cb_log,
                failed_asserts>>

\* what the engine itself owns (the members of block_prefetcher)
engine == <<nextread, nextconsume, nreadblocks, read_reqs, pref_buffer>>
params == <<seq_length, prefetch_buf_size, prefetch_seq, do_after_fetch>>
io == <<completed, read_buffers, reqs, cb_log>>
caller == <<held, delivered, rets>>

Min(a, b) == IF a < b THEN a ELSE b

Schedules(n) ==
    {f \in [0..(n - 1) -> 0..(n - 1)] :
        \A a, b \in 0..(n - 1) : f[a] = f[b] => a = b}

ReqIds == 1..Len(reqs)

\* ------------------------------------------------------------- requests
\* request states: "flight" (issued), "called" (the adapter has run its first
\* statement), "on" (the adapter has returned), "done" (retired:
\* request::wait() returns).  The field success is the flag the completion
\* was delivered with; it means nothing while the request is in flight.

\* block_type::read(bid, handler): a new request for position pos into slot
IssueRead(slot, pos) ==
    /\ reqs' = Append(reqs, [iblock |-> pos, ibuffer |-> slot,
                             st |-> "flight", success |-> TRUE])
    /\ read_reqs' = [read_reqs EXCEPT ![slot] = Len(reqs) + 1]

\* request_ptr::valid()
valid(slot) == read_reqs[slot] # 0

\* has request::wait() on the handle of this slot returned
Retired(slot) == reqs[read_reqs[slot]].st = "done"

\* ------------------------------------------------------------- construction
\* the state when the constructor reaches its loop: members initialised,
\* arrays allocated, pref_buffer filled with -1, every switch off
PrefetcherInit(lengths, sizes) ==
    /\ seq_length \in lengths
    /\ prefetch_buf_size \in sizes
    /\ prefetch_seq \in Schedules(seq_length)
    /\ do_after_fetch \in BOOLEAN
    /\ nextread = Min(prefetch_buf_size, seq_length)
    /\ nextconsume = 0
    /\ nreadblocks = nextread
    /\ read_reqs = [s \in 0..(nreadblocks - 1) |-> 0]
    /\ pref_buffer = [p \in 0..(seq_length - 1) |-> Unassigned]
    /\ completed = [p \in 0..(seq_length - 1) |-> FALSE]
    /\ read_buffers = [s \in 0..(nreadblocks - 1) |-> Unassigned]
    /\ reqs = <<>>
    /\ pc = "ctor_read"
    /\ i = 0
    /\ ibuffer = 0
    /\ next_2_prefetch = 0
    /\ iblock = 0
    /\ held = {}
    /\ delivered = <<>>
    /\ rets = <<>>
    /\ cb_log = [p \in 0..(seq_length - 1) |-> <<>>]
    /\ failed_asserts = {}

\* a constructor that reads the positions in consumption order
CtorReadPlain == i

\* the position the constructor reads into slot i: prefetch_seq[i]
CtorReadPos == prefetch_seq[i]

\* loop body, first half: read_reqs[i] = read_buffers[i].read(...)
CtorRead ==
    /\ pc = "ctor_read"
    /\ i < nreadblocks
    /\ IssueRead(i, CtorReadPos)
    /\ pc' = "ctor_map"
    /\ UNCHANGED <<stream, params, nextread, nextconsume, nreadblocks, pref_buffer,
                   completed, read_buffers, i, ibuffer, next_2_prefetch,
                   iblock, caller, cb_log, failed_asserts>>

\* a constructor that forgets the schedule when it fills the map
CtorMapPlain == i

\* a constructor that maps the position of its next turn
CtorMapAhead == prefetch_seq[(i + 1) % seq_length]

\* the map entry the constructor writes: pref_buffer[prefetch_seq[i]]
CtorMapIndex == prefetch_seq[i]

\* loop body, second half: pref_buffer[prefetch_seq[i]] = i; ++i
CtorMap ==
    /\ pc = "ctor_map"
    /\ pref_buffer' = [pref_buffer EXCEPT ![CtorMapIndex] = i]
    /\ i' = i + 1
    /\ pc' = IF i + 1 < nreadblocks THEN "ctor_read" ELSE "idle"
    /\ UNCHANGED <<stream, params, nextread, nextconsume, nreadblocks, read_reqs,
                   io, ibuffer, next_2_prefetch, iblock, caller,
                   failed_asserts>>

\* ------------------------------------------------------------- completion
\* on_complete_(req, success), run only if (on_complete_)
CallUser(r, success) ==
    /\ cb_log' = IF do_after_fetch
                 THEN [cb_log EXCEPT ![reqs[r].iblock] = Append(@, success)]
                 ELSE cb_log
    /\ UNCHANGED completed

\* an adapter that signals successful reads only
TurnOnIfOk(r, success) ==
    /\ completed' = IF success
                    THEN [completed EXCEPT ![reqs[r].iblock] = TRUE]
                    ELSE completed
    /\ UNCHANGED cb_log

\* switch_.on(), whatever the success flag is
TurnOn(r, success) ==
    /\ completed' = [completed EXCEPT ![reqs[r].iblock] = TRUE]
    /\ UNCHANGED cb_log

\* an adapter that turns the switch on before it calls the user handler
SwitchFirst(r, step, success) ==
    IF step = 1 THEN TurnOn(r, success) ELSE CallUser(r, success)

\* set_switch_handler::operator(): its two statements, in order
set_switch_handler(r, step, success) ==
    IF step = 1 THEN CallUser(r, success) ELSE TurnOn(r, success)

\* the I/O subsystem has finished read r into its buffer with the given
\* success flag and invokes the adapter, which runs its first statement
HandlerCall(r, success) ==
    /\ reqs[r].st = "flight"
    /\ reqs' = [reqs EXCEPT ![r].st = "called", ![r].success = success]
    /\ read_buffers' = [read_buffers EXCEPT ![reqs[r].ibuffer] = reqs[r].iblock]
    /\ set_switch_handler(r, 1, success)
    /\ UNCHANGED <<stream, params, engine, pc, i, ibuffer, next_2_prefetch,
                   iblock, caller, failed_asserts>>

\* the adapter runs its second statement and returns
HandlerOn(r) ==
    /\ reqs[r].st = "called"
    /\ reqs' = [reqs EXCEPT ![r].st = "on"]
    /\ set_switch_handler(r, 2, reqs[r].success)
    /\ UNCHANGED <<stream, params, engine, read_buffers, pc, i, ibuffer,
                   next_2_prefetch, iblock, caller, failed_asserts>>

\* the request retires after its handler has returned: wait() on it returns
Retire(r) ==
    /\ reqs[r].st = "on"
    /\ reqs' = [reqs EXCEPT ![r].st = "done"]
    /\ UNCHANGED <<stream, params, engine, completed, read_buffers, cb_log, pc, i,
                   ibuffer, next_2_prefetch, iblock, caller, failed_asserts>>

\* ------------------------------------------------------------- wait
\* a wait that does not wait for the switch
NoSignalWait(pos) == TRUE

\* a wait that waits for every read issued so far
SwitchIsOnAll(pos) ==
    completed[pos] /\ \A r \in ReqIds : completed[reqs[r].iblock]

\* completed[iblock].wait_for_on() has returned
SwitchIsOn(pos) == completed[pos]

\* wait(iblock), from the return of wait_for_on to the return of the buffer;
\* called by pull_block (pc = "pull_wait") and block_consumed (pc = "bc_wait")
WaitReturn ==
    /\ pc \in {"pull_wait", "bc_wait"}
    /\ SwitchIsOn(iblock)
    /\ LET ibuf == pref_buffer[iblock]
           inrange == ibuf \in 0..(nreadblocks - 1)
       IN /\ failed_asserts' = IF inrange THEN failed_asserts
                               ELSE failed_asserts \cup {98}
          /\ held' = held \cup {ibuf}
          /\ delivered' = Append(delivered,
                 [iblock |-> iblock, ibuffer |-> ibuf,
                  data |-> IF inrange THEN read_buffers[ibuf] ELSE Unassigned,
                  by |-> IF pc = "bc_wait" THEN Len(rets) + 1 ELSE 0])
    /\ rets' = IF pc = "bc_wait" THEN Append(rets, TRUE) ELSE rets
    /\ pc' = "idle"
    /\ UNCHANGED <<stream, params, engine, io, i, ibuffer, next_2_prefetch, iblock>>

\* ------------------------------------------------------------- pull_block
\* wait(nextconsume++), up to the blocking wait; the caller keeps the
\* precondition nextconsume < seq_length
pull_block ==
    /\ pc = "idle"
    /\ nextconsume < seq_length
    /\ iblock' = nextconsume
    /\ nextconsume' = nextconsume + 1
    /\ pc' = "pull_wait"
    /\ UNCHANGED <<stream, params, nextread, nreadblocks, read_reqs, pref_buffer, io,
                   i, ibuffer, next_2_prefetch, caller, failed_asserts>>

\* empty()
empty == nextconsume >= seq_length

\* pos()
pos == nextconsume

\* ------------------------------------------------------------- block_consumed
NFalse == Cardinality({k \in 1..Len(rets) : ~rets[k]})

\* a block_consumed that is off by one in the slot of the buffer
SlotOfNext(buffer) == (buffer + 1) % nreadblocks

\* size_t ibuffer = buffer - read_buffers: buffers are named by their slot
SlotOf(buffer) == buffer

\* entry: size_t ibuffer = buffer - read_buffers, for a buffer the caller holds
block_consumed(buffer) ==
    /\ pc = "idle"
    /\ buffer \in held
    /\ NFalse < MaxFalse
    /\ ibuffer' = SlotOf(buffer)
    /\ held' = held \ {buffer}
    /\ pc' = "bc_reqwait"
    /\ UNCHANGED <<stream, params, engine, io, i, next_2_prefetch, iblock, delivered,
                   rets, failed_asserts>>

\* a block_consumed that reuses the slot without waiting for its request
NoReqWait(slot) == TRUE

\* a block_consumed that takes the switch for the end of the request
WaitForSwitchOnly(slot) ==
    valid(slot) => reqs[read_reqs[slot]].st \in {"on", "done"}

\* if (read_reqs[ibuffer].valid()) read_reqs[ibuffer]->wait(); has come through
ReqWaitOver(slot) == valid(slot) => Retired(slot)

\* a block_consumed that tests the read cursor instead
ExhaustedByRead == nextread >= seq_length

\* a block_consumed that tests with > instead of >=
ExhaustedLate == nextconsume > seq_length

\* if (nextconsume >= seq_length) return false
Exhausted == nextconsume >= seq_length

\* the end of block_consumed: return false with the caller's buffer reference
\* as it was, or go into wait(nextconsume++)
\* a block_consumed that counts the call before it tests for the end
ConsumeTailCounting ==
    IF Exhausted
    THEN /\ rets' = Append(rets, FALSE)
         /\ held' = held \cup {ibuffer}
         /\ pc' = "idle"
         /\ nextconsume' = nextconsume + 1
         /\ UNCHANGED iblock
    ELSE /\ iblock' = nextconsume
         /\ nextconsume' = nextconsume + 1
         /\ pc' = "bc_wait"
         /\ UNCHANGED <<rets, held>>

\* if (nextconsume >= seq_length) return false; buffer = wait(nextconsume++)
ConsumeTail ==
    IF Exhausted
    THEN /\ rets' = Append(rets, FALSE)
         /\ held' = held \cup {ibuffer}
         /\ pc' = "idle"
         /\ UNCHANGED <<nextconsume, iblock>>
    ELSE /\ iblock' = nextconsume
         /\ nextconsume' = nextconsume + 1
         /\ pc' = "bc_wait"
         /\ UNCHANGED <<rets, held>>

\* a block_consumed that stops reading one position early
MoreToReadShort == nextread + 1 < seq_length

\* if (nextread < seq_length)
MoreToRead == nextread < seq_length

\* a block_consumed that takes the position before the one that is due
NextToPrefetchStale == prefetch_seq[nextread - 1]

\* prefetch_seq[nextread++], the position block_consumed reads next
NextToPrefetch == prefetch_seq[nextread]

\* from the return of the request wait to the read call: the handle is
\* cleared and, if a position is left to read, the map entry is written
Recycle ==
    /\ pc = "bc_reqwait"
    /\ ReqWaitOver(ibuffer)
    /\ read_reqs' = [read_reqs EXCEPT ![ibuffer] = 0]
    /\ IF MoreToRead
       THEN /\ next_2_prefetch' = NextToPrefetch
            /\ nextread' = nextread + 1
            /\ failed_asserts' =
                   failed_asserts
                   \cup (IF ibuffer < nreadblocks THEN {} ELSE {183})
                   \cup (IF completed[NextToPrefetch] THEN {188} ELSE {})
            /\ pref_buffer' =
                   [pref_buffer EXCEPT ![NextToPrefetch] = ibuffer]
            /\ pc' = "bc_read"
            /\ UNCHANGED <<nextconsume, iblock, rets, held>>
       ELSE /\ ConsumeTail
            /\ UNCHANGED <<next_2_prefetch, nextread, failed_asserts,
                           pref_buffer>>
    /\ UNCHANGED <<stream, params, nreadblocks, io, i, ibuffer, delivered>>

\* read_reqs[ibuffer] = read_buffers[ibuffer].read(...), then the tail
ConsumeRead ==
    /\ pc = "bc_read"
    /\ IssueRead(ibuffer, next_2_prefetch)
    /\ ConsumeTail
    /\ UNCHANGED <<stream, params, nextread, nreadblocks, pref_buffer, completed,
                   read_buffers, cb_log, i, ibuffer, next_2_prefetch,
                   delivered, failed_asserts>>

\* ------------------------------------------------------------- destruction
\* ~block_prefetcher is entered between two calls of the caller
Destroy ==
    /\ pc = "idle"
    /\ i' = 0
    /\ pc' = "dtor"
    /\ UNCHANGED <<stream, params, engine, io, ibuffer, next_2_prefetch, iblock,
                   caller, failed_asserts>>

\* a destructor that does not drain
NoDrain(slot) == TRUE

\* if (read_reqs[i].valid()) read_reqs[i]->wait(); has come through
DrainOver(slot) == valid(slot) => Retired(slot)

\* one turn of the destructor's loop
DtorWait ==
    /\ pc = "dtor"
    /\ i < nreadblocks
    /\ DrainOver(i)
    /\ i' = i + 1
    /\ UNCHANGED <<stream, params, engine, io, pc, ibuffer, next_2_prefetch, iblock,
                   caller, failed_asserts>>

\* the delete[] statements
DtorRelease ==
    /\ pc = "dtor"
    /\ i >= nreadblocks
    /\ pc' = "released"
    /\ UNCHANGED <<stream, params, engine, io, i, ibuffer, next_2_prefetch, iblock,
                   caller, failed_asserts>>

\* ------------------------------------------------------------- buf_ostream
\* the records a caller writes, and what a cell nobody has written holds
RecordValues == {"a", "b"}
Junk == "junk"

\* a buffer nobody has written to
JunkBlock == [k \in 1..block_size |-> Junk]

\* what a buffer the writer hands out may hold: nothing written yet, or the
\* records of a block written from it earlier
FreeBlocks(s) == {JunkBlock} \cup {s.written[k].data : k \in 1..Len(s.written)}

\* buf_ostream(first_bid, nbuffers): current_blk = writer.get_free_block()
NewStream ==
    [current_bid |-> 0, current_elem |-> 0, current_blk |-> JunkBlock,
     written |-> <<>>]

\* a stream that hands every block to the same output identifier
WriteSameBid(s, fresh) ==
    [s EXCEPT !.written = Append(@, [bid |-> s.current_bid,
                                     data |-> s.current_blk]),
              !.current_blk = fresh]

\* current_blk = writer.write(current_blk, *(current_bid++)): the writer takes
\* the buffer for the next output identifier and gives a free one back
Write(s, fresh) ==
    [s EXCEPT !.written = Append(@, [bid |-> s.current_bid,
                                     data |-> s.current_blk]),
              !.current_bid = @ + 1,
              !.current_blk = fresh]

\* a stream that hands the block over one record too late
WhenFullLate(s, fresh) ==
    IF s.current_elem > block_size
    THEN Write([s EXCEPT !.current_elem = 0], fresh)
    ELSE s

\* if (current_elem >= block_type::size) { current_elem = 0; write }
WhenFull(s, fresh) ==
    IF s.current_elem >= block_size
    THEN Write([s EXCEPT !.current_elem = 0], fresh)
    ELSE s

\* operator << (record)
Put(s, record, fresh) ==
    WhenFull([s EXCEPT !.current_blk[s.current_elem + 1] = record,
                       !.current_elem = @ + 1], fresh)

\* operator ++ ()
Advance(s, fresh) == WhenFull([s EXCEPT !.current_elem = @ + 1], fresh)

\* a fill that tests the offset after the put: do { ... } while
RECURSIVE FillDoWhile(_, _, _)
FillDoWhile(s, record, fresh) ==
    LET t == Put(s, record, fresh)
    IN IF t.current_elem # 0 THEN FillDoWhile(t, record, fresh) ELSE t

\* fill(record): while (current_elem != 0) operator << (record)
RECURSIVE Fill(_, _, _)
Fill(s, record, fresh) ==
    IF s.current_elem # 0 THEN Fill(Put(s, record, fresh), record, fresh)
    ELSE s

\* a flush that keeps a buffer nothing was put into
FlushIfDirty(s, fresh) ==
    IF s.current_elem = 0 THEN s
    ELSE Write([s EXCEPT !.current_elem = 0], fresh)

\* flush()
Flush(s, fresh) == Write([s EXCEPT !.current_elem = 0], fresh)

\* ~buf_ostream: assert(current_elem == 0)
DestructorAssertion(s) == s.current_elem = 0

StreamInit ==
    /\ block_size \in 1..MaxBlockSize
    /\ ostream = NewStream
    /\ os_hist = <<>>

\* one call on the stream; fresh is the buffer the writer gives back if the
\* call hands it one
StreamCall(op, record, fresh) ==
    /\ Len(os_hist) < MaxOps
    /\ ostream' = CASE op = "put" -> Put(ostream, record, fresh)
                    [] op = "inc" -> Advance(ostream, fresh)
                    [] op = "fill" -> Fill(ostream, record, fresh)
                    [] op = "flush" -> Flush(ostream, fresh)
    /\ os_hist' = Append(os_hist, [op |-> op, record |-> record])
    /\ UNCHANGED <<block_size, prefetcher>>

OsPut == \E r \in RecordValues, f \in FreeBlocks(ostream) :
             StreamCall("put", r, f)

OsAdvance == \E f \in FreeBlocks(ostream) : StreamCall("inc", Junk, f)

OsFill == \E r \in RecordValues, f \in FreeBlocks(ostream) :
              StreamCall("fill", r, f)

OsFlush == \E f \in FreeBlocks(ostream) : StreamCall("flush", Junk, f)

\* ------------------------------------------------------------- specifications
\* the prefetcher at work, the output stream newly constructed and unused
Init ==
    /\ PrefetcherInit(1..MaxN, 1..MaxBuf)
    /\ block_size = 1
    /\ ostream = NewStream
    /\ os_hist = <<>>

Constructor == CtorRead \/ CtorMap

IOStep ==
    \/ \E r \in ReqIds, success \in BOOLEAN : HandlerCall(r, success)
    \/ \E r \in ReqIds : HandlerOn(r)
    \/ \E r \in ReqIds : Retire(r)

ConsumeStep == Recycle \/ ConsumeRead \/ WaitReturn

Destructor == Destroy \/ DtorWait \/ DtorRelease

\* any caller that keeps the preconditions: it may hold several buffers, hand
\* them back in any order and destroy the engine between any two calls
Next ==
    \/ Constructor
    \/ IOStep
    \/ pull_block
    \/ \E b \in held : block_consumed(b)
    \/ ConsumeStep
    \/ Destructor

Spec == Init /\ [][Next]_vars

\* a streaming caller: one pull_block, then block_consumed on the buffer it
\* got until false comes back, then destruction
StreamPull == nextconsume = 0 /\ pull_block

StreamConsume == NFalse = 0 /\ \E b \in held : block_consumed(b)

StreamDestroy == NFalse > 0 /\ Destroy

StreamNext ==
    \/ Constructor
    \/ IOStep
    \/ StreamPull
    \/ StreamConsume
    \/ ConsumeStep
    \/ StreamDestroy
    \/ DtorWait
    \/ DtorRelease

\* every issued read is served and retires, and the caller keeps going
FairStream == Init /\ [][StreamNext]_vars /\ WF_vars(StreamNext)

\* the output stream at work, beside a prefetcher that is never run
OsInit == PrefetcherInit({1}, {1}) /\ ~do_after_fetch /\ StreamInit

OsNext == OsPut \/ OsAdvance \/ OsFill \/ OsFlush

OsSpec == OsInit /\ [][OsNext]_vars

\* ------------------------------------------------------------- properties
Positions == 0..(seq_length - 1)
Slots == 0..(nreadblocks - 1)

\* the reads issued and not yet retired
InFlight == {r \in ReqIds : reqs[r].st # "done"}

\* K = min(B, N)
K == Min(prefetch_buf_size, seq_length)

\* C1: the k-th buffer handed to the caller (by pull_block or by a
\* block_consumed call that returns true) is waited for as position k, is a
\* slot of the pool, and the read that last completed into that slot was the
\* read of position k: delivery is in the order 0, 1, ..., N-1 whatever the
\* schedule is.
C1_InOrder ==
    /\ Len(delivered) <= seq_length
    /\ \A k \in 1..Len(delivered) :
          /\ delivered[k].iblock = k - 1
          /\ delivered[k].ibuffer \in Slots
          /\ delivered[k].data = k - 1

\* all of a sequence delivered through fewer buffers than positions, under a
\* schedule that does not start with position 0
C1_Witness ==
    /\ seq_length >= 3
    /\ nreadblocks = 2
    /\ prefetch_seq[0] # 0
    /\ Len(delivered) = seq_length
    /\ \E k \in 1..Len(delivered) : delivered[k].by > 0

\* C2: in every state, from inside the constructor on, the number of reads
\* issued and not yet retired is at most K = min(B, N).
C2_AtMostK == Cardinality(InFlight) <= K

\* K reads in flight after block_consumed has issued one of them
C2_Witness ==
    /\ nreadblocks >= 2
    /\ Len(reqs) > nreadblocks
    /\ Cardinality(InFlight) = K

\* did the k-th block_consumed call hand out a block
Yielded(k) == \E d \in 1..Len(delivered) : delivered[d].by = k

\* C3 as stated: block_consumed returns false once only, and the call that
\* returns false is the one that yields the last block.
C3_FalseOnLastBlock ==
    \A k \in 1..Len(rets) :
        ~rets[k] =>
            /\ NFalse = 1
            /\ \E d \in 1..Len(delivered) :
                  delivered[d].by = k /\ delivered[d].iblock = seq_length - 1

\* C3 amended: block_consumed returns true exactly on the calls that yield a
\* block, the call that yields the last block included; a call returns false
\* only when all N positions were delivered before it began, it yields
\* nothing, and every call after a false one returns false as well.
C3_FalseAfterLastBlock ==
    \A k \in 1..Len(rets) :
        /\ rets[k] <=> Yielded(k)
        /\ ~rets[k] =>
              /\ Len(delivered) = seq_length
              /\ \A d \in 1..Len(delivered) : delivered[d].by < k
              /\ \A j \in k..Len(rets) : ~rets[j]

\* true returns followed by two false returns
C3_Witness ==
    /\ Len(rets) >= 3
    /\ rets[1]
    /\ NFalse = 2

\* C4: nextconsume never exceeds N, empty() is false while nextconsume < N
\* and true when nextconsume = N, nextconsume never decreases, and once
\* empty() is true it stays true.
C4_EmptyAtN ==
    /\ [](/\ nextconsume <= seq_length
          /\ empty <=> nextconsume = seq_length)
    /\ [][nextconsume' >= nextconsume /\ (empty => empty')]_vars

\* empty() is true and block_consumed has been called since
C4_Witness == empty /\ NFalse >= 1 /\ seq_length >= 2

\* C5: with a user handler, the handler has run at most once for each
\* position; it has run exactly once for every position whose read has been
\* served, whose switch is on, or whose buffer has been handed out.
C5_CallbackBeforeSignal ==
    do_after_fetch =>
        /\ \A p \in Positions :
              /\ Len(cb_log[p]) <= 1
              /\ completed[p] => Len(cb_log[p]) = 1
        /\ \A r \in ReqIds :
              reqs[r].st # "flight" => Len(cb_log[reqs[r].iblock]) = 1
        /\ \A d \in 1..Len(delivered) : Len(cb_log[delivered[d].iblock]) = 1

\* the caller waits for a position whose handler has run and whose switch is
\* still off
C5_Witness ==
    /\ do_after_fetch
    /\ pc \in {"pull_wait", "bc_wait"}
    /\ ~completed[iblock]
    /\ Len(cb_log[iblock]) = 1

\* the streaming caller has all N positions and the one false
StreamDone == pc = "idle" /\ Len(delivered) = seq_length /\ NFalse = 1

\* where a position stands in the schedule
SchedIndex(p) == CHOOSE j \in Positions : prefetch_seq[j] = p

\* every position k stands among the first k + K entries of the schedule
Feasible == \A p \in Positions : SchedIndex(p) < p + K

\* C6 as stated: under any permutation schedule the streaming caller gets all
\* N positions and then false.
C6_AlwaysTerminates == <>StreamDone

\* C6 amended: under a permutation schedule in which every position k stands
\* at a schedule index below k + min(B, N), the streaming caller never blocks
\* for ever: it gets all N positions and then false.
C6_FeasibleTerminates == Feasible => <>StreamDone

\* done under a feasible schedule that is not the consumption order, with
\* fewer buffers than positions
C6_Witness ==
    /\ StreamDone
    /\ Feasible
    /\ nreadblocks < seq_length
    /\ \E p \in Positions : prefetch_seq[p] # p

\* C7: no slot ever has two requests outstanding, and when block_consumed is
\* about to issue a read into its slot, every request issued into that slot
\* before has retired.
C7_RetiredBeforeReuse ==
    /\ \A s \in Slots :
          Cardinality({r \in InFlight : reqs[r].ibuffer = s}) <= 1
    /\ pc = "bc_read" =>
          \A r \in ReqIds : reqs[r].ibuffer = ibuffer => reqs[r].st = "done"

\* block_consumed is held up by a request whose switch is on and that has not
\* retired, with a read left to issue into the slot
C7_Witness ==
    /\ pc = "bc_reqwait"
    /\ valid(ibuffer)
    /\ reqs[read_reqs[ibuffer]].st = "on"
    /\ MoreToRead

\* C8: when the destructor releases the arrays no request is in flight; every
\* request in flight is the one its slot's handle refers to.
C8_DrainedBeforeRelease ==
    /\ pc = "released" => InFlight = {}
    /\ \A r \in InFlight : read_reqs[reqs[r].ibuffer] = r

\* released in mid-stream, after block_consumed has issued reads
C8_Witness ==
    /\ pc = "released"
    /\ Len(delivered) \in 1..(seq_length - 1)
    /\ Len(reqs) > nreadblocks

\* C9: a failed read goes the way of a successful one.  Once the adapter has
\* returned the switch of the position is on whatever the flag was; the user
\* handler got exactly that flag; no position is ever read twice; delivery
\* stays in order; and the step that delivers a completion changes nothing of
\* the engine, the switches or the caller, whichever flag it carries.
C9_FailureLikeSuccess ==
    /\ [](/\ \A r \in ReqIds :
                /\ reqs[r].st \in {"on", "done"} => completed[reqs[r].iblock]
                /\ (do_after_fetch /\ reqs[r].st # "flight")
                       => cb_log[reqs[r].iblock] = <<reqs[r].success>>
          /\ \A p \in Positions :
                Cardinality({r \in ReqIds : reqs[r].iblock = p}) <= 1
          /\ \A d \in 1..Len(delivered) :
                delivered[d].iblock = d - 1 /\ delivered[d].data = d - 1)
    /\ [][(\E r \in ReqIds : reqs[r].st = "flight" /\ reqs'[r].st = "called")
             => UNCHANGED <<engine, completed, pc, caller>>]_vars

\* a position whose read failed has been handed to the caller
C9_Witness ==
    \E r \in ReqIds :
        /\ ~reqs[r].success
        /\ reqs[r].st = "done"
        /\ cb_log[reqs[r].iblock] = <<FALSE>>
        /\ \E d \in 1..Len(delivered) : delivered[d].iblock = reqs[r].iblock

\* the records of the blocks handed to the writer, one after the other
RECURSIVE Concat(_)
Concat(blocks) ==
    IF blocks = <<>> THEN <<>> ELSE blocks[1].data \o Concat(Tail(blocks))

\* the records appended with operator <<, in order
Appended == [k \in 1..Len(os_hist) |-> os_hist[k].record]

\* the calls so far are n appends followed by one fill
PutsThenFill ==
    /\ os_hist # <<>>
    /\ os_hist[Len(os_hist)].op = "fill"
    /\ \A k \in 1..(Len(os_hist) - 1) : os_hist[k].op = "put"

CeilDiv(n, c) == (n + c - 1) \div c

\* C10: after n appends and then fill(x), ceil(n/c) blocks have gone to the
\* writer, the j-th to the j-th output identifier, and together they hold the
\* n records in append order and then x up to the block boundary; when n is a
\* multiple of c they hold the n records and nothing else.  The stream is at
\* offset 0 with ceil(n/c) identifiers consumed.
C10_BlocksAfterFill ==
    PutsThenFill =>
        LET n == Len(os_hist) - 1
            x == os_hist[Len(os_hist)].record
            m == CeilDiv(n, block_size)
            all == Concat(ostream.written)
        IN /\ Len(ostream.written) = m
           /\ \A j \in 1..m : ostream.written[j].bid = j - 1
           /\ Len(all) = m * block_size
           /\ \A k \in 1..Len(all) :
                 all[k] = IF k <= n THEN Appended[k] ELSE x
           /\ n % block_size = 0 => Len(all) = n
           /\ ostream.current_elem = 0
           /\ ostream.current_bid = m

\* a full block and a padded one: capacity c >= 2, n = c + 1 appends, fill
C10_Witness ==
    /\ PutsThenFill
    /\ block_size >= 2
    /\ Len(os_hist) - 1 = block_size + 1
    /\ Len(ostream.written) = 2


\* the constructor has returned and the caller has not called yet
AfterConstruction == pc = "idle" /\ nextconsume = 0 /\ rets = <<>>

\* C11: right after construction exactly K = min(B, N) reads have been
\* issued, the j-th of them for position schedule[j] into slot j, which is
\* also what handle j refers to and the only position whose switch that read
\* can turn on; map[schedule[j]] = j and every other map entry is unassigned;
\* nextread = K and nextconsume = 0.  When B >= N all N reads have been issued
\* once the constructor is done, and block_consumed never gets to issue one.
C11_AfterConstruction ==
    /\ AfterConstruction =>
          /\ Len(reqs) = K
          /\ \A j \in 0..(K - 1) :
                /\ reqs[j + 1].iblock = prefetch_seq[j]
                /\ reqs[j + 1].ibuffer = j
                /\ read_reqs[j] = j + 1
                /\ pref_buffer[prefetch_seq[j]] = j
          /\ \A p \in Positions :
                /\ (\A j \in 0..(K - 1) : prefetch_seq[j] # p)
                       => pref_buffer[p] = Unassigned
                /\ completed[p] =>
                       \E r \in ReqIds : /\ reqs[r].iblock = p
                                         /\ reqs[r].st \in {"on", "done"}
          /\ nextread = K
          /\ nextconsume = 0
    /\ (prefetch_buf_size >= seq_length /\ pc \notin {"ctor_read", "ctor_map"})
          => Len(reqs) = seq_length /\ pc # "bc_read"

\* constructed with two buffers for three positions under a schedule that is
\* not the consumption order, one read already served
C11_Witness ==
    /\ AfterConstruction
    /\ K = 2
    /\ seq_length = 3
    /\ prefetch_seq[0] = 2
    /\ completed[2]


\* what a block_consumed call does between the retirement of the old request
\* and its read call, and what the read call does
RecycleStep ==
    /\ (pc = "idle" /\ pc' = "bc_reqwait")
          => ibuffer' \in held /\ held' = held \ {ibuffer'}
    /\ (pc = "bc_reqwait" /\ pc' # pc) =>
          /\ reqs' = reqs
          /\ ibuffer' = ibuffer
          /\ IF nextread < seq_length
             THEN /\ pc' = "bc_read"
                  /\ next_2_prefetch' = prefetch_seq[nextread]
                  /\ nextread' = nextread + 1
                  /\ pref_buffer' = [pref_buffer EXCEPT
                                        ![prefetch_seq[nextread]] = ibuffer]
             ELSE /\ pc' # "bc_read"
                  /\ nextread' = nextread
                  /\ pref_buffer' = pref_buffer
    /\ (pc = "bc_read" /\ pc' # pc) =>
          /\ reqs' = Append(reqs, [iblock |-> prefetch_seq[nextread - 1],
                                   ibuffer |-> ibuffer, st |-> "flight",
                                   success |-> TRUE])
          /\ read_reqs' = [read_reqs EXCEPT ![ibuffer] = Len(reqs')]
          /\ ~completed[prefetch_seq[nextread - 1]]
          /\ nextread' = nextread
          /\ pref_buffer' = pref_buffer
    /\ Len(reqs') # Len(reqs) => pc \in {"ctor_read", "bc_read"}

\* the reads issued so far are the first ones of the schedule, in its order
InScheduleOrder ==
    /\ \A r \in ReqIds : reqs[r].iblock = prefetch_seq[r - 1]
    /\ pc \notin {"ctor_read", "ctor_map"}
          => nextread = Len(reqs) + (IF pc = "bc_read" THEN 1 ELSE 0)
    /\ (\E k \in 1..Len(rets) : ~rets[k])
          => \A p \in Positions :
                Cardinality({r \in ReqIds : reqs[r].iblock = p}) = 1
    /\ failed_asserts \cap {183, 188} = {}

\* C12: a block_consumed call made while nextread < N issues exactly one
\* read, for position schedule[nextread], into the slot of the buffer handed
\* back, writes that slot into map[schedule[nextread]] and advances nextread
\* by one; a call made at nextread = N issues none.  So the reads are issued
\* in schedule order, each position has been read exactly once when the
\* stream is exhausted, and the switch of a position is off when its read is
\* issued: the assertions of block_consumed never fail.
C12_ReadPerCall == [][RecycleStep]_vars /\ []InScheduleOrder

\* a block_consumed call has just issued the read of the last position of a
\* schedule that is not the consumption order, into slot 1
C12_Witness ==
    /\ Len(reqs) = 3
    /\ seq_length = 3
    /\ prefetch_seq[0] = 1
    /\ reqs[3].iblock = 2
    /\ reqs[3].ibuffer = 1
    /\ reqs[3].st = "flight"
    /\ pref_buffer[2] = 1


\* the steps of block_consumed after its recycle step, and its return
ReturnStep ==
    /\ (pc \in {"bc_reqwait", "bc_read"} /\ pc' \notin {pc, "bc_read"}) =>
          IF nextconsume < seq_length
          THEN /\ pc' = "bc_wait"
               /\ rets' = rets
               /\ nextconsume' = nextconsume + 1
          ELSE /\ pc = "bc_reqwait"
               /\ pc' = "idle"
               /\ rets' = Append(rets, FALSE)
               /\ UNCHANGED <<nextconsume, nextread, pref_buffer, reqs,
                              completed, read_buffers>>
               /\ held' = held \cup {ibuffer}
               /\ valid(ibuffer) => Retired(ibuffer)
               /\ read_reqs' = [read_reqs EXCEPT ![ibuffer] = 0]
    /\ (pc = "bc_wait" /\ pc' # pc)
          => rets' = Append(rets, TRUE) /\ nextconsume' = nextconsume
    /\ rets' # rets => pc \in {"bc_reqwait", "bc_wait"}
    /\ (pc = "idle" /\ pc' = "bc_reqwait")
          => UNCHANGED <<nextconsume, nextread, pref_buffer, reqs, read_reqs>>

\* C13: block_consumed returns true exactly when nextconsume < N after its
\* recycle step.  A call that returns false does so straight from the
\* recycle step, without a read and without the wait on a position: it leaves
\* nextconsume, nextread, the map and the caller's buffer as they were and
\* only clears the handle of the freed slot, whose request is retired.
C13_FalseChangesNothing ==
    /\ [][ReturnStep]_vars
    /\ [](pc = "bc_read" => nextconsume < seq_length)

\* false has been returned for a stream of three positions read with two
\* buffers, and the caller has its buffer back
C13_Witness ==
    /\ Len(rets) > 0
    /\ ~rets[Len(rets)]
    /\ seq_length = 3
    /\ nreadblocks = 2
    /\ nextconsume = 3
    /\ nextread = 3
    /\ ibuffer \in held
    /\ read_reqs[ibuffer] = 0
    /\ pc = "idle"


\* has a read for this position been issued
ReadIssued(p) == \E r \in ReqIds : reqs[r].iblock = p

\* C14 as stated: in every state, also inside the constructor and inside
\* block_consumed, map[p] is assigned only if the read of p has been issued
C14_MappedOnlyAfterRead ==
    \A p \in Positions : pref_buffer[p] # Unassigned => ReadIssued(p)

\* C14, amended: map[p] is assigned only if the read of p has been issued or
\* block_consumed stands between its map write and its read call for p.  The
\* constructor issues the read before it writes the map entry;
\* block_consumed writes the map entry first, so that at its read call the
\* entry of the position is set and no read for the position exists yet.
C14_MappedAfterReadOrRecycling ==
    /\ \A p \in Positions :
          pref_buffer[p] # Unassigned
             => ReadIssued(p) \/ (pc = "bc_read" /\ p = next_2_prefetch)
    /\ pc = "ctor_map" => /\ ReadIssued(prefetch_seq[i])
                          /\ pref_buffer[prefetch_seq[i]] = Unassigned
    /\ pc = "bc_read" => /\ pref_buffer[next_2_prefetch] = ibuffer
                         /\ ~ReadIssued(next_2_prefetch)

\* block_consumed has written the map entry of position 2 and is about to
\* issue its read
C14_Witness ==
    /\ pc = "bc_read"
    /\ next_2_prefetch = 2
    /\ pref_buffer[2] = 1
    /\ Len(reqs) = 2


\* every wait that has returned gave a slot of the pool, and the assertion
\* ibuffer < nreadblocks of wait has not failed
WaitGaveSlot ==
    /\ 98 \notin failed_asserts
    /\ \A k \in 1..Len(delivered) :
          /\ delivered[k].ibuffer \in 0..(K - 1)
          /\ delivered[k].ibuffer # Unassigned

\* the map entry of every position whose switch is on is written
OnOnlyIfMapped ==
    \A p \in Positions : completed[p] => pref_buffer[p] \in 0..(K - 1)

\* C15 as stated: a wait that returns gives an assigned slot below K, because
\* in every reachable state a switch is on only after its map entry has been
\* written
C15_SignalAfterMapAlways == WaitGaveSlot /\ OnOnlyIfMapped

\* C15, amended: a wait that returns gives an assigned slot below K and the
\* assertion of wait never fails, because in every state outside the
\* constructor's loop, the only states in which a wait can run, a switch
\* that is on has its map entry written.  Inside the constructor the read of
\* line 147 may complete before line 151 writes the entry.
C15_WaitGivesSlot ==
    /\ WaitGaveSlot
    /\ pc \notin {"ctor_read", "ctor_map"} => OnOnlyIfMapped
    /\ pc \in {"pull_wait", "bc_wait"} /\ completed[iblock]
          => pref_buffer[iblock] \in 0..(K - 1)

\* a wait has returned the slot of a position that block_consumed read, under
\* a schedule that is not the consumption order
C15_Witness ==
    /\ seq_length = 3
    /\ nreadblocks = 2
    /\ prefetch_seq[0] = 1
    /\ Len(delivered) = 3
    /\ delivered[3].iblock = 2
    /\ delivered[3].ibuffer = 1
    /\ delivered[3].by > 0


\* the two steps of a pull_block call: the call with its increment, and the
\* return of its wait
PullStep ==
    /\ (pc = "idle" /\ pc' = "pull_wait") =>
          /\ nextconsume' = nextconsume + 1
          /\ iblock' = nextconsume
          /\ UNCHANGED <<nextread, pref_buffer, read_reqs, reqs, completed,
                         read_buffers, held>>
    /\ (pc = "pull_wait" /\ pc' # pc) =>
          /\ pc' = "idle"
          /\ completed[iblock]
          /\ held' = held \cup {pref_buffer[iblock]}
          /\ UNCHANGED <<nextconsume, nextread, pref_buffer, read_reqs, reqs,
                         completed, read_buffers>>

\* a pull_block whose position has its switch on can return, whatever the
\* state of the other reads
PullReady == (pc = "pull_wait" /\ completed[iblock]) => ENABLED WaitReturn

\* C16: pull_block depends on the switch of position nextconsume only.
\* Whenever that switch is on the call can return, also while reads of other
\* positions are in flight; it issues no read and changes neither nextread,
\* the map nor a request handle: nextconsume + 1 is its only change.
C16_PullWaitsForOwnSignal == [][PullStep]_vars /\ []PullReady

\* pull_block has returned position 0 while the read of another position is
\* still in flight
C16_Witness ==
    /\ pc = "idle"
    /\ nextconsume = 1
    /\ Len(delivered) = 1
    /\ delivered[1].by = 0
    /\ delivered[1].iblock = 0
    /\ \E r \in ReqIds : reqs[r].st = "flight" /\ reqs[r].iblock # 0


\* the last call made on the stream, if any
LastOp == IF os_hist = <<>> THEN "none" ELSE os_hist[Len(os_hist)].op

\* C17: after any sequence of operator<<, operator++, fill and flush calls
\* the offset is at least 0 and below the capacity, and right after a fill or
\* a flush it is 0, so that the destructor's assertion holds when the last
\* call before destruction was one of these two.
C17_OffsetInRange ==
    /\ ostream.current_elem \in 0..(block_size - 1)
    /\ LastOp \in {"fill", "flush"}
          => ostream.current_elem = 0 /\ DestructorAssertion(ostream)

\* a fill after a put into a block of three records has handed the block
\* over and left the offset at 0
C17_Witness ==
    /\ block_size = 3
    /\ Len(os_hist) >= 2
    /\ LastOp = "fill"
    /\ os_hist[Len(os_hist) - 1].op = "put"
    /\ Len(ostream.written) = 1
    /\ ostream.current_elem = 0


\* what a flush call does to the stream
FlushStep ==
    (os_hist' # os_hist /\ os_hist'[Len(os_hist')].op = "flush") =>
        /\ ostream'.written = Append(ostream.written,
                                     [bid |-> ostream.current_bid,
                                      data |-> ostream.current_blk])
        /\ ostream'.current_bid = ostream.current_bid + 1
        /\ ostream'.current_elem = 0
        /\ ostream'.current_blk \in FreeBlocks(ostream)

\* the output identifiers consumed are those of the blocks handed over, in
\* sequence
BidsMatchBlocks ==
    /\ ostream.current_bid = Len(ostream.written)
    /\ \A k \in 1..Len(ostream.written) : ostream.written[k].bid = k - 1

\* C18: every flush, at any offset and also at offset 0, hands the current
\* buffer to the writer once, for the next output identifier, takes the
\* buffer the writer gives back as the current one and sets the offset to 0;
\* the number of output identifiers consumed is always the number of blocks
\* handed to the writer.
C18_FlushHandsOneBlock == [][FlushStep]_vars /\ []BidsMatchBlocks

\* two flushes at offset 0 in a row have handed over two blocks
C18_Witness ==
    /\ Len(os_hist) = 2
    /\ os_hist[1].op = "flush"
    /\ os_hist[2].op = "flush"
    /\ Len(ostream.written) = 2
    /\ ostream.current_bid = 2


\* no read is on its way into a buffer the caller holds
HeldQuiet ==
    /\ held \subseteq 0..(K - 1)
    /\ \A s \in held : \A r \in ReqIds :
          reqs[r].ibuffer = s => reqs[r].st # "flight"

\* no step issues a read into a held buffer or changes what one holds
HeldKept ==
    /\ \A s \in held \cap held' : read_buffers'[s] = read_buffers[s]
    /\ Len(reqs') > Len(reqs)
          => reqs'[Len(reqs')].ibuffer \notin (held \cup held')

\* C19: while the caller holds a buffer, got from pull_block or
\* block_consumed and not yet handed back, no read is in flight into its
\* slot and none is issued into it, however many buffers are held at once and
\* however the completions interleave; what a held buffer holds is never
\* overwritten.
C19_HeldBufferUntouched == []HeldQuiet /\ [][HeldKept]_vars

\* two buffers were held at once; slot 0 has been handed back and a read is
\* in flight into it while the caller still holds slot 1
C19_Witness ==
    /\ held = {1}
    /\ Len(delivered) = 2
    /\ Len(reqs) = 3
    /\ reqs[3].ibuffer = 0
    /\ reqs[3].st = "flight"
    /\ reqs[2].st = "done"


\* a fill call made at offset 0, and a fill call that follows a fill call
FillStep ==
    (os_hist' # os_hist /\ os_hist'[Len(os_hist')].op = "fill") =>
        /\ ostream.current_elem = 0 => ostream' = ostream
        /\ LastOp = "fill" => ostream' = ostream

\* C20: fill(x) called at offset 0 does nothing: no record is written, no
\* block handed to the writer, no output identifier consumed, and the
\* current buffer stays as it is.  So fill(x) followed by fill(y) leaves the
\* stream and the blocks handed over as fill(x) alone left them.
C20_FillAtZeroIsNoOp == [][FillStep]_vars

\* a put into a block of two records, then fill with one record and fill
\* with another: one block handed over
C20_Witness ==
    /\ block_size = 2
    /\ Len(os_hist) = 3
    /\ os_hist[1].op = "put"
    /\ os_hist[2].op = "fill"
    /\ os_hist[3].op = "fill"
    /\ os_hist[2].record # os_hist[3].record
    /\ Len(ostream.written) = 1
    /\ ostream.current_bid = 1

====
